---- MODULE Spec2Model ----
(***************************************************************************)
(* Model of examples/speech_to_text/prep_mustc_data_v2.py: the MuST-C      *)
(* segment index (class MUSTC) and the packaging pipeline process().       *)
(*                                                                         *)
(* Text read by yaml.BaseLoader is a string; a string is modelled as a     *)
(* tuple of one-character strings so that Python's string comparison and   *)
(* float() can be modelled by what they do.                                *)
(*                                                                         *)
(* Spec       runs of process() one after the other on one language        *)
(* SpecLangs  one run of process() over two languages                      *)
(* SpecIndex  MUSTC.__init__ on drawn alignment files                      *)
(* SpecFrames the n_frames formula on drawn durations                      *)
(***************************************************************************)
EXTENDS Integers, Sequences, FiniteSets, TLC

VARIABLES
    corpus,              \* the corpus on disk under data_root, per language
    fs_zip,              \* output_root/fbank80.zip per language: None or its members
    fs_gcmvn,            \* output_root/gcmvn.npz per language: None or the sample it was computed from
    fs_tsv,              \* output_root/<split>_<task>.tsv per language
    fs_config,           \* output_root/config_<task>.yaml per language
    args,                \* the arguments of the current run of process()
    pc,                  \* position of process() in its code
    langs_left,          \* languages of "for lang in set(args.lang)" not yet visited
    lang,                \* loop variable of line 107
    split_i,             \* index into MUSTC.SPLITS of the running split loop
    item_i,              \* number of utterances of the split already traversed
    dataset,             \* MUSTC(...).data of the current split
    feature_root,        \* the .npy files in the temporary directory
    gcmvn_feature_list,  \* line 131
    zip_manifest,        \* line 158
    exc,                 \* the exception that ended the last run of process(), or None
    duration_ms,         \* line 172
    n_frames             \* the value appended to manifest["n_frames"], line 173

vars == <<corpus, fs_zip, fs_gcmvn, fs_tsv, fs_config, args, pc, langs_left, lang,
          split_i, item_i, dataset, feature_root, gcmvn_feature_list, zip_manifest,
          exc, duration_ms, n_frames>>

None == "None"

(***************************************************************************)
(* Bounds of the model.                                                    *)
(***************************************************************************)
MaxSegs == 3          \* longest alignment file drawn for the segment index
MaxCap == 2           \* largest --gcmvn-max-num drawn
MaxDurationMs == 1000 \* longest decoded waveform drawn for the n_frames formula

(***************************************************************************)
(* Strings.                                                                *)
(***************************************************************************)
Digits == <<"0", "1", "2", "3", "4", "5", "6", "7", "8", "9">>

DigitVal(c) == (CHOOSE i \in 1..10 : Digits[i] = c) - 1

\* ord(c) for the characters of a decimal number
Code(c) == IF c = "." THEN 46 ELSE 48 + DigitVal(c)

\* a < b on Python str: lexicographic by code point, a proper prefix is smaller
RECURSIVE StrLess(_, _)
StrLess(a, b) ==
    IF b = <<>> THEN FALSE
    ELSE IF a = <<>> THEN TRUE
    ELSE IF Code(Head(a)) # Code(Head(b)) THEN Code(Head(a)) < Code(Head(b))
    ELSE StrLess(Tail(a), Tail(b))

RECURSIVE Pow10(_)
Pow10(k) == IF k = 0 THEN 1 ELSE 10 * Pow10(k - 1)

RECURSIVE DigitsValue(_)
DigitsValue(s) ==
    IF s = <<>> THEN 0
    ELSE 10 * DigitsValue(SubSeq(s, 1, Len(s) - 1)) + DigitVal(s[Len(s)])

\* float(s) of an unsigned decimal string, as the exact fraction num / den
Float(s) ==
    LET dots == {i \in 1..Len(s) : s[i] = "."}
    IN  IF dots = {} THEN [num |-> DigitsValue(s), den |-> 1]
        ELSE LET d == CHOOSE i \in dots : TRUE
                 nofrac == SubSeq(s, 1, d - 1) \o SubSeq(s, d + 1, Len(s))
             IN  [num |-> DigitsValue(nofrac), den |-> Pow10(Len(s) - d)]

\* int(float(s) * sample_rate), lines 79-80 (the product is not negative)
ToSamples(s, sample_rate) == (Float(s).num * sample_rate) \div Float(s).den

(***************************************************************************)
(* class MUSTC                                                             *)
(***************************************************************************)
SPLITS == <<"train", "dev", "tst-COMMON", "tst-HE">>

LANGUAGES == {"de", "ja", "zh"}

SplitSet == {SPLITS[i] : i \in 1..Len(SPLITS)}

\* line 69, once per transcript file
TranscriptsMatch(sc) == Len(sc.yaml) = sc.n_en /\ Len(sc.yaml) = sc.n_tgt

\* lines 66-71: segments[i][_lang] = u, the transcript line of the same index
RECURSIVE MergeTranscripts(_, _, _)
MergeTranscripts(segments, l, i) ==
    IF i > Len(segments) THEN <<>>
    ELSE <<[wav |-> segments[i].wav, offset |-> segments[i].offset,
            duration |-> segments[i].duration, speaker_id |-> segments[i].speaker_id,
            en |-> <<"en", i>>, tgt |-> <<l, i>>]>>
         \o MergeTranscripts(segments, l, i + 1)

\* itertools.groupby(segments, lambda x: x["wav"]): runs of consecutive equal keys
RECURSIVE GroupBy(_)
GroupBy(segments) ==
    IF segments = <<>> THEN <<>>
    ELSE LET rest == GroupBy(Tail(segments))
         IN  IF rest # <<>> /\ Head(rest)[1].wav = Head(segments).wav
             THEN <<<<Head(segments)>> \o Head(rest)>> \o Tail(rest)
             ELSE <<<<Head(segments)>>>> \o rest

\* the key of line 77: x["offset"], the text of the YAML scalar
OffsetKeyLess(x, y) == StrLess(x.offset, y.offset)

\* x goes before the first element that is greater than it (keeps equal keys in order)
RECURSIVE InsertSorted(_, _)
InsertSorted(sorted, x) ==
    IF sorted = <<>> THEN <<x>>
    ELSE IF OffsetKeyLess(x, Head(sorted)) THEN <<x>> \o sorted
    ELSE <<Head(sorted)>> \o InsertSorted(Tail(sorted), x)

\* sorted(_seg_group, key=lambda x: x["offset"]), line 77: a stable sort
RECURSIVE SortGroup(_)
SortGroup(group) ==
    IF group = <<>> THEN <<>>
    ELSE InsertSorted(SortGroup(SubSeq(group, 1, Len(group) - 1)), group[Len(group)])

\* Path(wav_filename).stem
Stem(wav_filename) == wav_filename.stem

\* lines 78-93: the tuples of one group
GroupData(seg_group, wav_path, sample_rate) ==
    [i \in 1..Len(seg_group) |->
        [wav_path |-> wav_path,
         offset |-> ToSamples(seg_group[i].offset, sample_rate),
         n_frames |-> ToSamples(seg_group[i].duration, sample_rate),
         sample_rate |-> sample_rate,
         src_utt |-> seg_group[i].en,
         tgt_utt |-> seg_group[i].tgt,
         spk_id |-> seg_group[i].speaker_id,
         utt_id |-> <<Stem(wav_path.name), i - 1>>]]

\* lines 73-93: self.data
RECURSIVE GatherInfo(_, _, _, _)
GatherInfo(groups, sf_info, l, split) ==
    IF groups = <<>> THEN <<>>
    ELSE LET wav_filename == Head(groups)[1].wav
             wav_path == [lang |-> l, split |-> split, name |-> wav_filename]
             sample_rate == sf_info[wav_filename].samplerate
         IN  GroupData(SortGroup(Head(groups)), wav_path, sample_rate)
             \o GatherInfo(Tail(groups), sf_info, l, split)

\* MUSTC.__init__: err is the AssertionError of lines 54, 57, 69, or None and
\* data is self.data
MUSTC(root, l, split) ==
    IF ~(split \in SplitSet /\ l \in LANGUAGES) THEN [err |-> "AssertionError", data |-> <<>>]
    ELSE LET sc == root[l].splits[split]
         IN  IF ~sc.is_dir THEN [err |-> "AssertionError", data |-> <<>>]
             ELSE IF ~TranscriptsMatch(sc) THEN [err |-> "AssertionError", data |-> <<>>]
             ELSE [err |-> None,
                   data |-> GatherInfo(GroupBy(MergeTranscripts(sc.yaml, l, 1)),
                                       sc.sf_info, l, split)]

\* MUSTC.__getitem__, lines 96-97: the window asked of get_waveform
Window(item) == [wav_path |-> item.wav_path, start |-> item.offset, frames |-> item.n_frames]

\* sf.info(wav_path).frames: the length of the recording in samples
TotalSamples(root, wav_path) ==
    root[wav_path.lang].splits[wav_path.split].sf_info[wav_path.name].frames

\* get_waveform(wav_path, frames, start): the decoded window, or AudioReadError when
\* the window exceeds the recording
GetWaveform(root, w) ==
    IF w.start + w.frames > TotalSamples(root, w.wav_path)
    THEN [err |-> "AudioReadError", wav |-> w]
    ELSE [err |-> None, wav |-> w]

\* extract_fbank_features(waveform, sample_rate): a pure function of the window,
\* or DegenerateInputError on an empty window
ExtractFbankFeatures(waveform, sample_rate) ==
    [err |-> IF waveform.frames = 0 THEN "DegenerateInputError" ELSE None,
     features |-> [fbank_of |-> waveform, sample_rate |-> sample_rate]]

(***************************************************************************)
(* process(): pure parts                                                   *)
(***************************************************************************)
TASKS == {"asr", "st"}

NoFile == [exists |-> FALSE, content |-> <<>>]

File(content) == [exists |-> TRUE, content |-> content]

\* ZipExists gone wrong: the archive is never found
ZipExistsNever(l) == FALSE

\* line 120: zip_path.exists()
ZipExists(l) == fs_zip[l].exists

\* lines 129, 141, 145
IsGlobalTrain(split) == split = "train" /\ args.cmvn_type = "global"

\* UnderCap gone wrong: "<=" for "<"
UnderCapInclusive(list, cap) == Len(list) <= cap

\* line 142: len(gcmvn_feature_list) < args.gcmvn_max_num
UnderCap(list, cap) == Len(list) < cap

\* np.save((feature_root / f"{utt_id}.npy"), features), lines 136-139: a file of
\* the same name is overwritten
NpSave(root, utt_id, features) ==
    {f \in root : f.name # utt_id} \cup {[name |-> utt_id, array |-> features]}

\* cal_gcmvn_stats(gcmvn_feature_list): mean and std are a function of the sample
CalGcmvnStats(list) == [stats_of |-> list]

\* create_zip(feature_root, zip_path): every .npy of feature_root; the archive
\* appears at zip_path whole or not at all
CreateZip(root) == File(root)

\* get_zip_manifest(zip_path): utt_id -> "path:offset-end" of the member
GetZipManifest(l) ==
    {[utt_id |-> m.name, audio |-> [zip |-> <<l, "fbank80.zip">>, member |-> m.name]]
        : m \in fs_zip[l].content}

\* zip_manifest[utt_id], line 171
HasKey(manifest, utt_id) == \E e \in manifest : e.utt_id = utt_id

Lookup(manifest, utt_id) == (CHOOSE e \in manifest : e.utt_id = utt_id).audio

\* int(x) of the fraction a / b, b > 0: rounds toward zero
TruncDiv(a, b) == IF a >= 0 THEN a \div b ELSE -((-a) \div b)

\* line 172: int(wav.size(1) / sr * 1000); exact for the sizes drawn here (whole
\* seconds and windows under one second)
DurationMs(size, sr) == (size * 1000) \div sr

\* NFrames gone wrong: math.floor for int
NFramesFloor(d) == (10 + (d - 25)) \div 10

\* line 173: int(1 + (duration_ms - 25) / 10)
NFrames(d) == TruncDiv(10 + (d - 25), 10)

\* IsTrainSplit gone wrong: split.startswith("t")
IsTrainSplitT(split) == split \in {"train", "tst-COMMON", "tst-HE"}

\* line 164: split.startswith("train")
IsTrainSplit(split) == split = "train"

MinNFrames == 5
MaxNFrames == 3000

\* filter_manifest_df(df, is_train_split): rows outside the frame band are dropped
\* from the training split only
FilterManifestDf(df, is_train_split) ==
    IF is_train_split
    THEN SelectSeq(df, LAMBDA r : r.n_frames >= MinNFrames /\ r.n_frames <= MaxNFrames)
    ELSE df

\* lines 169-176 for one item: the exception raised, or None
ItemError(root, manifest, item) ==
    IF GetWaveform(root, Window(item)).err # None THEN GetWaveform(root, Window(item)).err
    ELSE IF ~HasKey(manifest, item.utt_id) THEN "KeyError"
    ELSE None

\* lines 170-176 and 182: the manifest row of one item
ManifestRow(root, manifest, item, task) ==
    LET wav == GetWaveform(root, Window(item)).wav
    IN  [id |-> item.utt_id,
         audio |-> Lookup(manifest, item.utt_id),
         n_frames |-> NFrames(DurationMs(wav.frames, item.sample_rate)),
         tgt_text |-> IF task = "asr" THEN item.src_utt ELSE item.tgt_utt,
         speaker |-> item.spk_id]

\* lines 165-176 and 182-183: the data frame of one split and task
ManifestDf(root, manifest, data, task) ==
    [i \in 1..Len(data) |-> ManifestRow(root, manifest, data[i], task)]

\* the first exception of the traversal of lines 169-176, or None
TraversalError(root, manifest, data) ==
    LET bad == {i \in 1..Len(data) : ItemError(root, manifest, data[i]) # None}
    IN  IF bad = {} THEN None
        ELSE ItemError(root, manifest, data[CHOOSE i \in bad : \A j \in bad : i <= j])

(***************************************************************************)
(* The corpora drawn.                                                      *)
(***************************************************************************)
WavFile(stem) == [stem |-> stem, suffix |-> ".wav"]

Ted1 == WavFile("ted_1")
Ted2 == WavFile("ted_2")
Ted3 == WavFile("ted_3")
Ted4 == WavFile("ted_4")
Ted5 == WavFile("ted_5")

\* every recording: 16 kHz, 60 seconds
SfInfo == [w \in {Ted1, Ted2, Ted3, Ted4, Ted5} |-> [samplerate |-> 16000, frames |-> 960000]]

Seg(wav, offset, duration) ==
    [wav |-> wav, offset |-> offset, duration |-> duration, speaker_id |-> "spk.1"]

SeqsUpTo(S, n) == UNION {[1..k -> S] : k \in 0..n}

\* training alignments of process(): a 1 s segment, and a 40 s segment of another talk
SegA == Seg(Ted1, <<"2">>, <<"1">>)
SegB == Seg(Ted2, <<"0">>, <<"4", "0">>)
SegC == Seg(Ted1, <<"1", "0">>, <<"1">>)

\* none, one talk, two talks, and a talk whose records are not contiguous
TrainLists == {<<>>, <<SegA>>, <<SegA, SegB>>, <<SegA, SegC, SegB>>, <<SegA, SegB, SegC>>}

\* the other splits: dev holds a 4 ms segment, tst-COMMON a 40 s one
OtherYaml ==
    [s \in SplitSet \ {"train"} |->
        CASE s = "dev" -> <<Seg(Ted3, <<"0">>, <<"0", ".", "0", "0", "4">>),
                            Seg(Ted3, <<"1">>, <<"1">>)>>
          [] s = "tst-COMMON" -> <<Seg(Ted4, <<"0">>, <<"4", "0">>)>>
          [] s = "tst-HE" -> <<Seg(Ted5, <<"3">>, <<"1">>)>>]

\* kind: "ok", "lines" (a transcript with one line too many) or "dir" (no directory)
SplitCorpus(yaml, kind) ==
    [is_dir |-> kind # "dir", yaml |-> yaml, n_en |-> Len(yaml),
     n_tgt |-> IF kind = "lines" THEN Len(yaml) + 1 ELSE Len(yaml), sf_info |-> SfInfo]

LangStatus ==
    {[kind |-> "absent", split |-> None], [kind |-> "ok", split |-> None]}
    \cup {[kind |-> k, split |-> s] : k \in {"lines", "dir"}, s \in SplitSet}

LangCorpus(train, st) ==
    [is_dir |-> st.kind # "absent",
     splits |-> [s \in SplitSet |->
        SplitCorpus(IF s = "train" THEN train ELSE OtherYaml[s],
                    IF st.kind = "absent" THEN "dir"
                    ELSE IF st.split = s THEN st.kind ELSE "ok")]]

\* the languages asked for on the command line
ReqLangs == {"de", "ja"}

LangOrders == {<<"de">>, <<"ja">>, <<"de", "ja">>, <<"ja", "de">>}

(***************************************************************************)
(* process(): state                                                        *)
(***************************************************************************)
NoArgs == [lang |-> <<>>, cmvn_type |-> "utterance", gcmvn_max_num |-> 0, task |-> {}]

LocalsReset ==
    /\ split_i' = 0
    /\ item_i' = 0
    /\ dataset' = <<>>
    /\ feature_root' = {}
    /\ gcmvn_feature_list' = <<>>
    /\ zip_manifest' = {}
    /\ duration_ms' = 0
    /\ n_frames' = 0

NoOutput ==
    /\ fs_zip = [l \in LANGUAGES |-> NoFile]
    /\ fs_gcmvn = [l \in LANGUAGES |-> NoFile]
    /\ fs_tsv = [l \in LANGUAGES |-> [k \in SplitSet \X TASKS |-> NoFile]]
    /\ fs_config = [l \in LANGUAGES |-> [t \in TASKS |-> NoFile]]

NoRun ==
    /\ args = NoArgs
    /\ langs_left = <<>>
    /\ lang = None
    /\ split_i = 0
    /\ item_i = 0
    /\ dataset = <<>>
    /\ feature_root = {}
    /\ gcmvn_feature_list = <<>>
    /\ zip_manifest = {}
    /\ exc = None
    /\ duration_ms = 0
    /\ n_frames = 0

Absent == [kind |-> "absent", split |-> None]

\* the arguments drawn: both tasks are asked for; the cap matters in global mode only
ArgsChoices ==
    {a \in [lang : LangOrders, cmvn_type : {"utterance", "global"},
            gcmvn_max_num : 0..MaxCap, task : {TASKS}] :
        a.cmvn_type = "utterance" => a.gcmvn_max_num = MaxCap}

\* runs of process() one after the other on a corpus that holds en-de only
Init ==
    /\ \E train \in TrainLists, st \in LangStatus :
          corpus = [l \in LANGUAGES |-> LangCorpus(train, IF l = "de" THEN st ELSE Absent)]
    /\ NoOutput
    /\ NoRun
    /\ pc = "idle"

\* Raise gone wrong: the exception is caught per language and the loop goes on
RaiseCaughtPerLanguage(e) ==
    /\ pc' = "for_lang"
    /\ exc' = None
    /\ LocalsReset
    /\ UNCHANGED <<corpus, fs_zip, fs_gcmvn, fs_tsv, fs_config, args, langs_left, lang>>

\* an exception leaves process(): the run is over
Raise(e) ==
    /\ pc' = "idle"
    /\ exc' = e
    /\ args' = NoArgs
    /\ LocalsReset
    /\ UNCHANGED <<corpus, fs_zip, fs_gcmvn, fs_tsv, fs_config, langs_left, lang>>

\* main(): process(args)
StartRun ==
    /\ pc = "idle"
    /\ \E a \in ArgsChoices :
          /\ args' = a
          /\ langs_left' = a.lang
    /\ pc' = "for_lang"
    /\ exc' = None
    /\ lang' = None
    /\ LocalsReset
    /\ UNCHANGED <<corpus, fs_zip, fs_gcmvn, fs_tsv, fs_config>>

\* lines 107-120: the next language; process() returns after the last one
ForLang ==
    /\ pc = "for_lang"
    /\ IF langs_left = <<>>
       THEN /\ pc' = "idle"
            /\ lang' = None
            /\ args' = NoArgs
            /\ LocalsReset
            /\ UNCHANGED langs_left
       ELSE /\ lang' = Head(langs_left)
            /\ langs_left' = Tail(langs_left)
            /\ args' = args
            /\ IF ~corpus[Head(langs_left)].is_dir
               THEN pc' = "for_lang" /\ split_i' = 0
               ELSE IF ZipExists(Head(langs_left))
               THEN pc' = "get_zip_manifest" /\ split_i' = 0
               ELSE pc' = "fetch" /\ split_i' = 1
            /\ UNCHANGED <<item_i, dataset, feature_root, gcmvn_feature_list, zip_manifest,
                           duration_ms, n_frames>>
    /\ UNCHANGED <<corpus, fs_zip, fs_gcmvn, fs_tsv, fs_config, exc>>

\* lines 126-131: the dataset of the split
FetchSplit ==
    /\ pc = "fetch"
    /\ LET ds == MUSTC(corpus, lang, SPLITS[split_i])
       IN  IF ds.err # None THEN Raise(ds.err)
           ELSE /\ dataset' = ds.data
                /\ item_i' = 0
                /\ gcmvn_feature_list' =
                      IF IsGlobalTrain(SPLITS[split_i]) THEN <<>> ELSE gcmvn_feature_list
                /\ pc' = "extract"
                /\ UNCHANGED <<corpus, fs_zip, fs_gcmvn, fs_tsv, fs_config, args, langs_left,
                               lang, split_i, feature_root, zip_manifest, exc, duration_ms,
                               n_frames>>

\* lines 133-143: one utterance of the split
ExtractItem ==
    /\ pc = "extract"
    /\ item_i < Len(dataset)
    /\ LET item == dataset[item_i + 1]
           w == GetWaveform(corpus, Window(item))
           f == ExtractFbankFeatures(w.wav, item.sample_rate)
       IN  IF w.err # None THEN Raise(w.err)
           ELSE IF f.err # None THEN Raise(f.err)
           ELSE /\ feature_root' = NpSave(feature_root, item.utt_id, f.features)
                /\ gcmvn_feature_list' =
                      IF IsGlobalTrain(SPLITS[split_i])
                         /\ UnderCap(gcmvn_feature_list, args.gcmvn_max_num)
                      THEN Append(gcmvn_feature_list, f.features)
                      ELSE gcmvn_feature_list
                /\ item_i' = item_i + 1
                /\ UNCHANGED <<corpus, fs_zip, fs_gcmvn, fs_tsv, fs_config, args, pc,
                               langs_left, lang, split_i, dataset, zip_manifest, exc,
                               duration_ms, n_frames>>

\* lines 145-149 and the end of one round of the loop of line 125
EndSplit ==
    /\ pc = "extract"
    /\ item_i = Len(dataset)
    /\ fs_gcmvn' = IF IsGlobalTrain(SPLITS[split_i])
                   THEN [fs_gcmvn EXCEPT ![lang] = File(CalGcmvnStats(gcmvn_feature_list))]
                   ELSE fs_gcmvn
    /\ IF split_i < Len(SPLITS)
       THEN split_i' = split_i + 1 /\ pc' = "fetch"
       ELSE split_i' = split_i /\ pc' = "create_zip"
    /\ UNCHANGED <<corpus, fs_zip, fs_tsv, fs_config, args, langs_left, lang, item_i,
                   dataset, feature_root, gcmvn_feature_list, zip_manifest, exc,
                   duration_ms, n_frames>>

\* lines 151-152, and the temporary directory is removed
ZipFeatures ==
    /\ pc = "create_zip"
    /\ fs_zip' = [fs_zip EXCEPT ![lang] = CreateZip(feature_root)]
    /\ feature_root' = {}
    /\ pc' = "get_zip_manifest"
    /\ UNCHANGED <<corpus, fs_gcmvn, fs_tsv, fs_config, args, langs_left, lang, split_i,
                   item_i, dataset, gcmvn_feature_list, zip_manifest, exc, duration_ms,
                   n_frames>>

\* lines 157-162
FetchZipManifest ==
    /\ pc = "get_zip_manifest"
    /\ zip_manifest' = GetZipManifest(lang)
    /\ split_i' = 1
    /\ pc' = "manifest"
    /\ UNCHANGED <<corpus, fs_zip, fs_gcmvn, fs_tsv, fs_config, args, langs_left, lang,
                   item_i, dataset, feature_root, gcmvn_feature_list, exc, duration_ms,
                   n_frames>>

\* lines 164-185: the manifests of one split
ManifestSplit ==
    /\ pc = "manifest"
    /\ LET split == SPLITS[split_i]
           ds == MUSTC(corpus, lang, split)
           terr == TraversalError(corpus, zip_manifest, ds.data)
           last == ds.data[Len(ds.data)]
       IN  IF ds.err # None THEN Raise(ds.err)
           ELSE IF terr # None THEN Raise(terr)
           ELSE /\ dataset' = ds.data
                /\ item_i' = Len(ds.data)
                /\ duration_ms' = IF ds.data = <<>> THEN duration_ms
                                  ELSE DurationMs(last.n_frames, last.sample_rate)
                /\ n_frames' = IF ds.data = <<>> THEN n_frames
                               ELSE NFrames(DurationMs(last.n_frames, last.sample_rate))
                /\ fs_tsv' = [fs_tsv EXCEPT ![lang] =
                      [k \in SplitSet \X TASKS |->
                          IF k[1] = split /\ k[2] \in args.task
                          THEN File(FilterManifestDf(
                                        ManifestDf(corpus, zip_manifest, ds.data, k[2]),
                                        IsTrainSplit(split)))
                          ELSE fs_tsv[lang][k]]]
                /\ IF split_i < Len(SPLITS)
                   THEN split_i' = split_i + 1 /\ pc' = "manifest"
                   ELSE split_i' = split_i /\ pc' = "vocab_config"
                /\ UNCHANGED <<corpus, fs_zip, fs_gcmvn, fs_config, args, langs_left, lang,
                               feature_root, gcmvn_feature_list, zip_manifest, exc>>

\* lines 187-218: the vocabulary and the configuration descriptor of every task
VocabConfig ==
    /\ pc = "vocab_config"
    /\ fs_config' = [fs_config EXCEPT ![lang] =
          [t \in TASKS |->
              IF t \in args.task
              THEN File([cmvn_type |-> args.cmvn_type,
                         gcmvn_path |-> IF args.cmvn_type = "global"
                                        THEN <<lang, "gcmvn.npz">> ELSE <<>>])
              ELSE fs_config[lang][t]]]
    /\ pc' = "for_lang"
    /\ UNCHANGED <<corpus, fs_zip, fs_gcmvn, fs_tsv, args, langs_left, lang, split_i,
                   item_i, dataset, feature_root, gcmvn_feature_list, zip_manifest, exc,
                   duration_ms, n_frames>>

RunningPcs == {"for_lang", "fetch", "extract", "create_zip", "get_zip_manifest",
               "manifest", "vocab_config"}

\* the run is interrupted from outside (KeyboardInterrupt, kill)
Interrupt ==
    /\ pc \in RunningPcs
    /\ Raise("KeyboardInterrupt")

Next ==
    \/ StartRun
    \/ ForLang
    \/ FetchSplit
    \/ ExtractItem
    \/ EndSplit
    \/ ZipFeatures
    \/ FetchZipManifest
    \/ ManifestSplit
    \/ VocabConfig
    \/ Interrupt

Spec == Init /\ [][Next]_vars

(***************************************************************************)
(* One run of process() on a corpus that holds en-de and en-ja.            *)
(***************************************************************************)
InitLangs ==
    /\ \E st \in [ReqLangs -> LangStatus] :
          corpus = [l \in LANGUAGES |->
                      LangCorpus(<<SegA, SegB>>, IF l \in ReqLangs THEN st[l] ELSE Absent)]
    /\ NoOutput
    /\ \E a \in ArgsChoices :
          /\ args = a
          /\ langs_left = a.lang
    /\ lang = None
    /\ split_i = 0
    /\ item_i = 0
    /\ dataset = <<>>
    /\ feature_root = {}
    /\ gcmvn_feature_list = <<>>
    /\ zip_manifest = {}
    /\ exc = None
    /\ duration_ms = 0
    /\ n_frames = 0
    /\ pc = "for_lang"

NextLangs ==
    \/ ForLang
    \/ FetchSplit
    \/ ExtractItem
    \/ EndSplit
    \/ ZipFeatures
    \/ FetchZipManifest
    \/ ManifestSplit
    \/ VocabConfig
    \/ Interrupt

SpecLangs == InitLangs /\ [][NextLangs]_vars

(***************************************************************************)
(* MUSTC(root, "de", "train") on the alignment files of up to MaxSegs      *)
(* records.                                                                *)
(***************************************************************************)
OffsetStrs == {<<"2">>, <<"1", "0">>, <<"2", ".", "5">>}

DurationStrs == {<<"1">>, <<"5", "5">>}

IndexSegs == {Seg(w, o, d) : w \in {Ted1, Ted2}, o \in OffsetStrs, d \in DurationStrs}

InitIndex ==
    /\ \E yaml \in SeqsUpTo(IndexSegs, MaxSegs), k \in {"ok", "lines"} :
          corpus = [l \in LANGUAGES |->
                      LangCorpus(yaml, IF l = "de" THEN [kind |-> k, split |-> "train"]
                                       ELSE Absent)]
    /\ NoOutput
    /\ NoRun
    /\ pc = "index"

\* dataset = MUSTC(root, "de", "train")
ConstructIndex ==
    /\ pc = "index"
    /\ LET ds == MUSTC(corpus, "de", "train")
       IN  /\ dataset' = ds.data
           /\ exc' = ds.err
    /\ pc' = "indexed"
    /\ UNCHANGED <<corpus, fs_zip, fs_gcmvn, fs_tsv, fs_config, args, langs_left, lang,
                   split_i, item_i, feature_root, gcmvn_feature_list, zip_manifest,
                   duration_ms, n_frames>>

NextIndex == ConstructIndex

SpecIndex == InitIndex /\ [][NextIndex]_vars

(***************************************************************************)
(* Lines 172-173 on a decoded waveform of duration_ms milliseconds.        *)
(***************************************************************************)
InitFrames ==
    /\ corpus = [l \in LANGUAGES |-> LangCorpus(<<>>, Absent)]
    /\ NoOutput
    /\ args = NoArgs
    /\ langs_left = <<>>
    /\ lang = None
    /\ split_i = 0
    /\ item_i = 0
    /\ dataset = <<>>
    /\ feature_root = {}
    /\ gcmvn_feature_list = <<>>
    /\ zip_manifest = {}
    /\ exc = None
    /\ duration_ms \in 0..MaxDurationMs
    /\ n_frames = 0
    /\ pc = "frames"

\* manifest["n_frames"].append(int(1 + (duration_ms - 25) / 10))
AppendNFrames ==
    /\ pc = "frames"
    /\ n_frames' = NFrames(duration_ms)
    /\ pc' = "framed"
    /\ UNCHANGED <<corpus, fs_zip, fs_gcmvn, fs_tsv, fs_config, args, langs_left, lang,
                   split_i, item_i, dataset, feature_root, gcmvn_feature_list,
                   zip_manifest, exc, duration_ms>>

NextFrames == AppendNFrames

SpecFrames == InitFrames /\ [][NextFrames]_vars

(***************************************************************************)
(* Properties                                                              *)
(***************************************************************************)
Min(a, b) == IF a < b THEN a ELSE b

\* the feature array of a segment descriptor
FeaturesOf(item) ==
    ExtractFbankFeatures(GetWaveform(corpus, Window(item)).wav, item.sample_rate).features

InBand(n) == n >= MinNFrames /\ n <= MaxNFrames

ExtractionPcs == {"fetch", "extract", "create_zip"}

\* C1: a language whose fbank80.zip exists when its processing starts goes straight
\* to reading the archive index: no feature is extracted, create_zip is not called
\* and the archive stays as it is.
C1_ExistingArchiveSkipsExtraction ==
    /\ [][(/\ pc = "for_lang"
           /\ langs_left # <<>>
           /\ corpus[Head(langs_left)].is_dir
           /\ fs_zip[Head(langs_left)].exists
           /\ exc' # "KeyboardInterrupt")
          => (/\ pc' = "get_zip_manifest"
              /\ lang' = Head(langs_left)
              /\ fs_zip' = fs_zip
              /\ feature_root' = feature_root)]_vars
    /\ [](pc \in ExtractionPcs => ~fs_zip[lang].exists)
    /\ [][\A l \in LANGUAGES : fs_zip[l].exists => fs_zip'[l] = fs_zip[l]]_vars

\* C1 witness: a rerun is about to read the index of an archive it did not build
C1_Witness ==
    /\ pc = "get_zip_manifest"
    /\ dataset = <<>>
    /\ feature_root = {}
    /\ fs_zip[lang].exists
    /\ fs_zip[lang].content # {}

\* the utterances of all four splits of language l
AllItems(l) ==
    UNION {{MUSTC(corpus, l, sp).data[i] : i \in 1..Len(MUSTC(corpus, l, sp).data)}
              : sp \in SplitSet}

\* C2: manifests are generated only when the archive holds the feature array of
\* every utterance of all four splits.
C2_ManifestsOnlyOnWholeArchive ==
    pc \in {"manifest", "vocab_config"} =>
        \A item \in AllItems(lang) :
            [name |-> item.utt_id, array |-> FeaturesOf(item)] \in fs_zip[lang].content

\* An archive that exists was sealed by a create_zip that ran to its end: it has a
\* member for every utterance id of the four splits (a run interrupted before or
\* in create_zip leaves no archive).
ArchiveSealedWhole ==
    \A l \in LANGUAGES :
        fs_zip[l].exists =>
            {m.name : m \in fs_zip[l].content} = {item.utt_id : item \in AllItems(l)}

\* C3: in global mode the sample given to cal_gcmvn_stats is the first
\* min(N, gcmvn_max_num) feature arrays of the training split in traversal order,
\* never an array of another split, and every array traversed is saved.
C3_StatisticsCap ==
    /\ [](pc = "extract" /\ args.cmvn_type = "global" =>
            LET train == MUSTC(corpus, lang, "train").data
                seen == IF SPLITS[split_i] = "train" THEN item_i ELSE Len(train)
            IN  gcmvn_feature_list =
                    [i \in 1..Min(seen, args.gcmvn_max_num) |-> FeaturesOf(train[i])])
    /\ [][fs_gcmvn' # fs_gcmvn
          => LET train == MUSTC(corpus, lang, "train").data
             IN  /\ args.cmvn_type = "global"
                 /\ fs_gcmvn'[lang].content.stats_of =
                        [i \in 1..Min(Len(train), args.gcmvn_max_num) |-> FeaturesOf(train[i])]]_vars
    /\ [][pc = "extract" /\ item_i' = item_i + 1
          => [name |-> dataset[item_i + 1].utt_id, array |-> FeaturesOf(dataset[item_i + 1])]
                 \in feature_root']_vars

\* C3 witness: statistics were written from a sample the cap cut short
C3_Witness ==
    /\ pc = "extract"
    /\ SPLITS[split_i] = "dev"
    /\ fs_gcmvn[lang].exists
    /\ Len(fs_gcmvn[lang].content.stats_of) = 1
    /\ Len(MUSTC(corpus, lang, "train").data) = 3
    /\ Cardinality(feature_root) >= 2

\* C4: a manifest of a split other than train has a row for every segment
\* traversed, whatever its n_frames; a training manifest has no row whose n_frames
\* is outside the band.
C4_FilterOnlyTrainingSplit ==
    \A l \in LANGUAGES, sp \in SplitSet, t \in TASKS :
        fs_tsv[l][<<sp, t>>].exists =>
            LET rows == fs_tsv[l][<<sp, t>>].content
                data == MUSTC(corpus, l, sp).data
            IN  IF sp = "train"
                THEN \A i \in 1..Len(rows) : InBand(rows[i].n_frames)
                ELSE /\ Len(rows) = Len(data)
                     /\ \A i \in 1..Len(rows) :
                           /\ rows[i].id = data[i].utt_id
                           /\ rows[i].tgt_text =
                                 IF t = "asr" THEN data[i].src_utt ELSE data[i].tgt_utt

\* C4 witness: dev and tst-COMMON manifests keep a row below and a row above the
\* band, and the training manifest lost a row
C4_Witness ==
    \E l \in LANGUAGES :
        /\ fs_tsv[l][<<"dev", "st">>].exists
        /\ \E i \in 1..Len(fs_tsv[l][<<"dev", "st">>].content) :
              fs_tsv[l][<<"dev", "st">>].content[i].n_frames < MinNFrames
        /\ fs_tsv[l][<<"tst-COMMON", "asr">>].exists
        /\ \E i \in 1..Len(fs_tsv[l][<<"tst-COMMON", "asr">>].content) :
              fs_tsv[l][<<"tst-COMMON", "asr">>].content[i].n_frames > MaxNFrames
        /\ fs_tsv[l][<<"train", "asr">>].exists
        /\ Len(fs_tsv[l][<<"train", "asr">>].content) = 1
        /\ Len(MUSTC(corpus, l, "train").data) = 2

\* C5 as stated: n_frames = 1 + floor((duration_ms - 25) / 10) for every
\* duration_ms >= 0.
C5_FloorFormulaEverywhere ==
    pc = "framed" => n_frames = 1 + ((duration_ms - 25) \div 10)

\* C5 as amended: the floor formula from 15 ms on; below 15 ms the quotient is
\* rounded toward zero, n_frames = 1 - floor((25 - duration_ms) / 10); 1000 ms
\* gives 98.
C5_FloorFormulaFrom15Ms ==
    pc = "framed" =>
        /\ duration_ms >= 15 => n_frames = 1 + ((duration_ms - 25) \div 10)
        /\ duration_ms < 15 => n_frames = 1 - ((25 - duration_ms) \div 10)
        /\ duration_ms = 1000 => n_frames = 98

\* C5 witness: a 4 ms waveform was framed
C5_Witness == pc = "framed" /\ duration_ms = 4 /\ n_frames = -1

\* the alignment record a descriptor was built from (its transcript line number)
RecordOf(item) == corpus["de"].splits["train"].yaml[item.src_utt[2]]

\* float(a) <= float(b), float(a) = float(b)
NumLeq(a, b) == Float(a).num * Float(b).den <= Float(b).num * Float(a).den
NumEq(a, b) == Float(a).num * Float(b).den = Float(b).num * Float(a).den

\* positions p..q of dataset lie in one group of line 74
SameGroup(p, q) == \A r \in p..q : dataset[r].wav_path = dataset[p].wav_path

\* C6: within a recording group the index of utterance_id follows ascending
\* numeric offset, equal offsets keeping the order of the alignment records.
C6_IndexFollowsNumericOffset ==
    pc = "indexed" =>
        \A p, q \in 1..Len(dataset) :
            (p < q /\ SameGroup(p, q) /\ dataset[p].utt_id[2] < dataset[q].utt_id[2]) =>
                /\ NumLeq(RecordOf(dataset[p]).offset, RecordOf(dataset[q]).offset)
                /\ NumEq(RecordOf(dataset[p]).offset, RecordOf(dataset[q]).offset)
                      => dataset[p].src_utt[2] < dataset[q].src_utt[2]

IntegrityFailure ==
    /\ pc \in {"fetch", "manifest"}
    /\ MUSTC(corpus, lang, SPLITS[split_i]).err = "AssertionError"

Outputs == <<fs_zip, fs_gcmvn, fs_tsv, fs_config>>

\* C7 as stated: an integrity failure in a split of language L ends the work on L
\* and process() goes on with the remaining languages.
C7_FailureSkipsLanguageOnly ==
    [][(IntegrityFailure /\ langs_left # <<>> /\ exc' # "KeyboardInterrupt")
       => (pc' = "for_lang" /\ langs_left' = langs_left)]_vars

\* C7 as amended: the AssertionError leaves process(); the run ends there with the
\* languages not yet visited left unprocessed and no output written. Only a
\* language whose corpus directory is absent is skipped.
C7_FailureEndsRun ==
    /\ [][(IntegrityFailure /\ exc' # "KeyboardInterrupt")
          => (/\ pc' = "idle"
              /\ exc' = "AssertionError"
              /\ langs_left' = langs_left
              /\ Outputs' = Outputs)]_vars
    /\ [][(/\ pc = "for_lang"
           /\ langs_left # <<>>
           /\ ~corpus[Head(langs_left)].is_dir
           /\ exc' # "KeyboardInterrupt")
          => (pc' = "for_lang" /\ langs_left' = Tail(langs_left))]_vars

\* C7 witness: the run ended on AssertionError with a sound language left unvisited
C7_Witness ==
    /\ pc = "idle"
    /\ exc = "AssertionError"
    /\ langs_left # <<>>
    /\ \A sp \in SplitSet : MUSTC(corpus, Head(langs_left), sp).err = None
    /\ ~fs_zip[Head(langs_left)].exists
    /\ ~fs_tsv[Head(langs_left)][<<"train", "asr">>].exists

\* C8: every descriptor has 0 <= offset_samples and offset_samples +
\* duration_samples <= the number of samples of its recording.
C8_WindowInsideRecording ==
    pc = "indexed" =>
        \A p \in 1..Len(dataset) :
            /\ 0 <= dataset[p].offset
            /\ dataset[p].offset + dataset[p].n_frames
                  <= TotalSamples(corpus, dataset[p].wav_path)

\* C9: no two segments of a split get the same utterance_id.
C9_UtteranceIdsDistinct ==
    pc = "indexed" =>
        \A p, q \in 1..Len(dataset) : p # q => dataset[p].utt_id # dataset[q].utt_id

\* C10: a configuration descriptor written in global mode names a gcmvn.npz that
\* exists.
C10_ConfigStatisticsExist ==
    \A l \in LANGUAGES, t \in TASKS :
        (fs_config[l][t].exists /\ fs_config[l][t].content.cmvn_type = "global")
            => fs_gcmvn[l].exists

====
